---- MODULE Spec2Model ----
(***************************************************************************)
(* The deferred hardware-command audio manager (bn::audio_manager).        *)
(*                                                                         *)
(* The state is the process-wide static_data object: the bounded command   *)
(* queue and the shadow fields.  Every public operation is one action; a   *)
(* failing BN_ASSERT ends the program (fatal holds the assertion message   *)
(* and nothing runs afterwards).  The hardware driver calls an operation   *)
(* makes are given by the operators update_calls and commit_calls;         *)
(* hw_executed counts the queued commands the most recent operation        *)
(* executed against the driver, and hw_audio is the playback state those   *)
(* executed commands have put the driver in, followed only under the       *)
(* specifications that start with the driver observed.                     *)
(*                                                                         *)
(* enemy is one enemy of the sample game (bf::game::enemy), constructed    *)
(* only under SpecEnemy; its death plays a sound through the manager.      *)
(***************************************************************************)
EXTENDS Integers, Sequences, FiniteSets, TLC

VARIABLES data, fatal, hw_executed, hw_audio, enemy

vars == <<data, fatal, hw_executed, hw_audio, enemy>>

(***************************************************************************)
(* Bounds of the model.                                                    *)
(***************************************************************************)
\* capacity of the command vector; the source only requires it to exceed 2
BN_CFG_AUDIO_MAX_COMMANDS == 3

\* constants::view_height, in quarters of a pixel: a sprite further than this
\* from the centre is outside the view
view_height == 100

(***************************************************************************)
(* Fixed point numbers: a fixed_t<P> is its raw int _value.                *)
(***************************************************************************)
FixedPrecision == 12

Pow2(n) == 2 ^ n

\* C++ integer division truncates towards zero
TruncDiv(a, b) ==
    IF a >= 0 THEN a \div b ELSE -((-a) \div b)

\* fixed_t<Precision>::fixed_t(fixed_t<OtherPrecision> other), raw values
FixedConvert(precision, otherPrecision, value) ==
    IF precision < otherPrecision
    THEN TruncDiv(value, Pow2(otherPrecision) \div Pow2(precision))
    ELSE value * (Pow2(precision) - Pow2(otherPrecision))

\* fixed_t(int integer) scaling by one bit too many
FixedOfInt_wrong_scale(integer) == integer * Pow2(FixedPrecision + 1)

\* fixed_t(int integer)
FixedOfInt(integer) == integer * Pow2(FixedPrecision)

Min(a, b) == IF a < b THEN a ELSE b

ToInt16(x) ==
    LET m == x % 65536 IN IF m >= 32768 THEN m - 65536 ELSE m

ToUint16(x) == x % 65536

ToUint8(x) == x % 256

\* _hw_music_volume() clamped to the hardware value of volume 1
_hw_music_volume_clamped(volume) ==
    Min(FixedConvert(10, FixedPrecision, volume), Pow2(10))

_hw_music_volume(volume) == FixedConvert(10, FixedPrecision, volume)

\* _hw_sound_volume() without the clamp
_hw_sound_volume_unclamped(volume) == FixedConvert(8, FixedPrecision, volume)

_hw_sound_volume(volume) == Min(FixedConvert(8, FixedPrecision, volume), 255)

_hw_dmg_music_volume(volume) == FixedConvert(3, FixedPrecision, volume)

_hw_sound_speed(speed) == Min(FixedConvert(10, FixedPrecision, speed), 65535)

\* _hw_sound_panning() without the clamp
_hw_sound_panning_unclamped(panning) ==
    FixedConvert(7, FixedPrecision, panning + FixedOfInt(1))

_hw_sound_panning(panning) ==
    Min(FixedConvert(7, FixedPrecision, panning + FixedOfInt(1)), 255)

(***************************************************************************)
(* Inputs a caller passes and values the driver reports.                   *)
(***************************************************************************)
\* Under Spec a caller uses every operation, with one value per argument.
Volumes == {FixedOfInt(2)}

DmgVolumes == {FixedOfInt(1)}

SoundVolumes == {FixedOfInt(2)}

\* music item ids
Items == {1}

\* DMG music data handles (0 is the null pointer)
DmgItems == {1}

SoundItems == {1}

Loops == {TRUE}

\* music positions a caller sets and the driver reports
Positions == {1}

DmgPositions == {[pattern |-> 1, row |-> 1]}

\* a negative pattern is the driver's "unknown"
HwPatterns == {-1, 1}

HwRows == {1}

DmgSpeeds == {1}

Priorities == {0}

SoundSpeeds == {FixedOfInt(1)}

SoundPannings == {FixedOfInt(1)}

\* Under SpecMusic a caller uses the music operations and the frame pump,
\* with several values per argument: volumes 0.5, 1 and 2, and driver
\* positions that no caller sets.
MusicVolumes == {FixedOfInt(1) \div 2, FixedOfInt(1), FixedOfInt(2)}

MusicItems == {1, 2}

MusicLoops == BOOLEAN

MusicPositions == {1}

MusicHwPositions == {2}

\* Under SpecVolumes a caller uses the operations that write a shadow volume
\* field and the frame pump, with the raw fixed volumes at both ends of the
\* normalized range [0, 1]: -1/4096, 0, 1 and 1 + 1/4096.
VolumeArgs == {-1, 0, 4096, 4097}

\* Under SpecSound a caller plays sounds, with raw fixed pannings over the
\* whole range [-1, 1] (both ends, 0, and the values around each step of the
\* hardware scale) and raw fixed volumes below, within and above the range
\* the hardware field holds.
PanningArgs ==
    {-4096, -4095, -4065, -4064, -33, -32, -1, 0, 1, 31, 32, 4063, 4064, 4095, 4096}

SoundVolumeArgs ==
    {-4096, -16, -1, 0, 15, 16, 2048, 4079, 4080, 4095, 4096, 4097, 8192}

\* Under SpecDmg a caller uses the DMG music operations and the frame pump,
\* and the driver reports patterns and rows that no caller sets: the
\* "unknown" pattern -1, the smallest valid pattern 0, and 2.
DmgHwPatterns == {-1, 0, 2}

DmgHwRows == {0, 3}

\* Under SpecDmgPlay a caller uses the DMG music operations with two DMG
\* music data handles and the channel volumes 0.5 and 1, starts and pauses
\* music, and runs the frame pump.
DmgItemArgs == {1, 2}

DmgVolumeArgs == {FixedOfInt(1) \div 2, FixedOfInt(1)}

\* Under SpecVolumeScale a caller sets music volumes 1, the largest volume
\* below 64 and 64, and DMG channel volumes 1 and 8192: the smallest volumes
\* whose hardware value does not fit the 16 bit field of a command are 64
\* (music) and 8192 (DMG music).
MusicScaleArgs == {FixedOfInt(1), FixedOfInt(64) - 1, FixedOfInt(64)}

DmgScaleArgs == {FixedOfInt(1), FixedOfInt(8192)}

(***************************************************************************)
(* class command                                                           *)
(***************************************************************************)
command(command_type, id, priority, volume, loop, speed, panning) ==
    [_id |-> id, _priority |-> ToInt16(priority), _volume |-> ToUint16(volume),
     _speed |-> ToUint16(speed), _type |-> command_type,
     _panning |-> ToUint8(panning), _loop |-> loop]

command_music_play(item, loop, volume) ==
    command("MUSIC_PLAY", item, 0, volume, loop, 0, 0)

command_music_stop == command("MUSIC_STOP", 0, 0, 0, FALSE, 0, 0)

command_music_pause == command("MUSIC_PAUSE", 0, 0, 0, FALSE, 0, 0)

command_music_resume == command("MUSIC_RESUME", 0, 0, 0, FALSE, 0, 0)

command_music_set_position(position) ==
    command("MUSIC_SET_POSITION", position, 0, 0, FALSE, 0, 0)

command_music_set_volume(volume) ==
    command("MUSIC_SET_VOLUME", 0, 0, volume, FALSE, 0, 0)

command_dmg_music_play(item, loop, speed) ==
    command("DMG_MUSIC_PLAY", item, 0, speed, loop, 0, 0)

command_dmg_music_stop == command("DMG_MUSIC_STOP", 0, 0, 0, FALSE, 0, 0)

command_dmg_music_pause == command("DMG_MUSIC_PAUSE", 0, 0, 0, FALSE, 0, 0)

command_dmg_music_resume == command("DMG_MUSIC_RESUME", 0, 0, 0, FALSE, 0, 0)

command_dmg_music_set_position(position) ==
    command("DMG_MUSIC_SET_POSITION", position.pattern, 0, position.row, FALSE, 0, 0)

command_dmg_music_set_volume(left_volume, right_volume) ==
    command("DMG_MUSIC_SET_VOLUME", 0, 0, left_volume, FALSE, right_volume, 0)

command_sound_play(priority, item) ==
    command("SOUND_PLAY", item, priority, 0, FALSE, 0, 0)

command_sound_play_ex(priority, item, volume, speed, panning) ==
    command("SOUND_PLAY_EX", item, priority, volume, FALSE, speed, panning)

command_sound_stop_all == command("SOUND_STOP_ALL", 0, 0, 0, FALSE, 0, 0)

\* one call of a hw::audio primitive
HwCall(fn, args) == [fn |-> fn, args |-> args]

\* command::execute(): the driver primitive the command invokes
execute(c) ==
    CASE c._type = "MUSIC_PLAY" -> HwCall("play_music", <<c._id, c._volume, c._loop>>)
      [] c._type = "MUSIC_STOP" -> HwCall("stop_music", <<>>)
      [] c._type = "MUSIC_PAUSE" -> HwCall("pause_music", <<>>)
      [] c._type = "MUSIC_RESUME" -> HwCall("resume_music", <<>>)
      [] c._type = "MUSIC_SET_POSITION" -> HwCall("set_music_position", <<c._id>>)
      [] c._type = "MUSIC_SET_VOLUME" -> HwCall("set_music_volume", <<c._volume>>)
      [] c._type = "DMG_MUSIC_PLAY" -> HwCall("play_dmg_music", <<c._id, c._volume, c._loop>>)
      [] c._type = "DMG_MUSIC_STOP" -> HwCall("stop_dmg_music", <<>>)
      [] c._type = "DMG_MUSIC_PAUSE" -> HwCall("pause_dmg_music", <<>>)
      [] c._type = "DMG_MUSIC_RESUME" -> HwCall("resume_dmg_music", <<>>)
      [] c._type = "DMG_MUSIC_SET_POSITION" -> HwCall("set_dmg_music_position", <<c._id, c._volume>>)
      [] c._type = "DMG_MUSIC_SET_VOLUME" -> HwCall("set_dmg_music_volume", <<c._volume, c._speed>>)
      [] c._type = "SOUND_PLAY" -> HwCall("play_sound", <<c._priority, c._id>>)
      [] c._type = "SOUND_PLAY_EX" ->
            HwCall("play_sound", <<c._priority, c._id, c._volume, c._speed, c._panning>>)
      [] c._type = "SOUND_STOP_ALL" -> HwCall("stop_all_sounds", <<>>)

(***************************************************************************)
(* class static_data                                                       *)
(***************************************************************************)
dmg_music_position_zero == [pattern |-> 0, row |-> 0]

static_data ==
    [commands |-> <<>>,
     music_volume |-> 0,
     dmg_music_position |-> dmg_music_position_zero,
     dmg_music_left_volume |-> 0,
     dmg_music_right_volume |-> 0,
     music_item_id |-> 0,
     music_position |-> 0,
     dmg_music_data |-> 0,
     music_playing |-> FALSE,
     music_paused |-> FALSE,
     dmg_music_paused |-> FALSE]

\* full() off by one: a full queue still accepts a command
full_off_by_one(commands) == Len(commands) > BN_CFG_AUDIO_MAX_COMMANDS

\* vector::full()
full(commands) == Len(commands) >= BN_CFG_AUDIO_MAX_COMMANDS

\* push_back() that inserts at the head of the vector
push_back_at_head(commands, c) == <<c>> \o commands

\* vector::push_back()
push_back(commands, c) == Append(commands, c)

\* the outcome of an operation: the data it leaves, the failed assertion's
\* message ("" when none failed) and the value it returns
Ok(d, value) == [data |-> d, fatal |-> "", value |-> value]

Error(d, message) == [data |-> d, fatal |-> message, value |-> 0]

NoCommandsMsg == "No more audio commands available"

NoMusicMsg == "There's no music playing"

MusicPausedMsg == "Music is already paused"

MusicNotPausedMsg == "Music is not paused"

NoDmgMusicMsg == "There's no DMG music playing"

DmgMusicPausedMsg == "DMG music is already paused"

DmgMusicNotPausedMsg == "DMG music is not paused"

(***************************************************************************)
(* Public operations, as functions from static_data to an outcome.         *)
(***************************************************************************)
music_playing_fn(d) == Ok(d, d.music_playing)

\* optional<music_item>: <<>> when empty, <<id>> otherwise
playing_music_item_fn(d) ==
    Ok(d, IF d.music_playing THEN <<d.music_item_id>> ELSE <<>>)

\* play_music() that leaves the paused flag as it was
play_music_fn_keeps_paused(d, item, volume, loop) ==
    IF full(d.commands) THEN Error(d, NoCommandsMsg)
    ELSE Ok([d EXCEPT
               !.commands = push_back(@, command_music_play(item, loop, _hw_music_volume(volume))),
               !.music_item_id = item,
               !.music_position = 0,
               !.music_volume = volume,
               !.music_playing = TRUE], 0)

play_music_fn(d, item, volume, loop) ==
    IF full(d.commands) THEN Error(d, NoCommandsMsg)
    ELSE Ok([d EXCEPT
               !.commands = push_back(@, command_music_play(item, loop, _hw_music_volume(volume))),
               !.music_item_id = item,
               !.music_position = 0,
               !.music_volume = volume,
               !.music_playing = TRUE,
               !.music_paused = FALSE], 0)

\* stop_music() that leaves the paused flag as it was
stop_music_fn_keeps_paused(d) ==
    IF ~d.music_playing THEN Error(d, NoMusicMsg)
    ELSE IF full(d.commands) THEN Error(d, NoCommandsMsg)
    ELSE Ok([d EXCEPT
               !.commands = push_back(@, command_music_stop),
               !.music_playing = FALSE], 0)

stop_music_fn(d) ==
    IF ~d.music_playing THEN Error(d, NoMusicMsg)
    ELSE IF full(d.commands) THEN Error(d, NoCommandsMsg)
    ELSE Ok([d EXCEPT
               !.commands = push_back(@, command_music_stop),
               !.music_playing = FALSE,
               !.music_paused = FALSE], 0)

music_paused_fn(d) == Ok(d, d.music_paused)

\* pause_music() without the "already paused" assertion
pause_music_fn_repeatable(d) ==
    IF ~d.music_playing THEN Error(d, NoMusicMsg)
    ELSE IF full(d.commands) THEN Error(d, NoCommandsMsg)
    ELSE Ok([d EXCEPT
               !.commands = push_back(@, command_music_pause),
               !.music_paused = TRUE], 0)

pause_music_fn(d) ==
    IF ~d.music_playing THEN Error(d, NoMusicMsg)
    ELSE IF d.music_paused THEN Error(d, MusicPausedMsg)
    ELSE IF full(d.commands) THEN Error(d, NoCommandsMsg)
    ELSE Ok([d EXCEPT
               !.commands = push_back(@, command_music_pause),
               !.music_paused = TRUE], 0)

\* resume_music() asserting that music plays instead of that it is paused
resume_music_fn_playing(d) ==
    IF ~d.music_playing THEN Error(d, NoMusicMsg)
    ELSE IF full(d.commands) THEN Error(d, NoCommandsMsg)
    ELSE Ok([d EXCEPT
               !.commands = push_back(@, command_music_resume),
               !.music_paused = FALSE], 0)

\* resume_music() that leaves the paused flag set
resume_music_fn_keeps_paused(d) ==
    IF ~d.music_paused THEN Error(d, MusicNotPausedMsg)
    ELSE IF full(d.commands) THEN Error(d, NoCommandsMsg)
    ELSE Ok([d EXCEPT !.commands = push_back(@, command_music_resume)], 0)

resume_music_fn(d) ==
    IF ~d.music_paused THEN Error(d, MusicNotPausedMsg)
    ELSE IF full(d.commands) THEN Error(d, NoCommandsMsg)
    ELSE Ok([d EXCEPT
               !.commands = push_back(@, command_music_resume),
               !.music_paused = FALSE], 0)

music_position_fn(d) ==
    IF ~d.music_playing THEN Error(d, NoMusicMsg)
    ELSE Ok(d, d.music_position)

\* set_music_position() that writes the shadow position before it checks
\* that the queue has room
set_music_position_fn_late_check(d, position) ==
    IF ~d.music_playing THEN Error(d, NoMusicMsg)
    ELSE IF full(d.commands)
    THEN Error([d EXCEPT !.music_position = position], NoCommandsMsg)
    ELSE Ok([d EXCEPT
               !.commands = push_back(@, command_music_set_position(position)),
               !.music_position = position], 0)

set_music_position_fn(d, position) ==
    IF ~d.music_playing THEN Error(d, NoMusicMsg)
    ELSE IF full(d.commands) THEN Error(d, NoCommandsMsg)
    ELSE Ok([d EXCEPT
               !.commands = push_back(@, command_music_set_position(position)),
               !.music_position = position], 0)

music_volume_fn(d) ==
    IF ~d.music_playing THEN Error(d, NoMusicMsg)
    ELSE Ok(d, d.music_volume)

\* set_music_volume() without the "music playing" assertion
set_music_volume_fn_unchecked(d, volume) ==
    IF full(d.commands) THEN Error(d, NoCommandsMsg)
    ELSE Ok([d EXCEPT
               !.commands = push_back(@, command_music_set_volume(_hw_music_volume(volume))),
               !.music_volume = volume], 0)

\* set_music_volume() that stores the volume rescaled for the hardware
set_music_volume_fn_hw_rescaled(d, volume) ==
    IF ~d.music_playing THEN Error(d, NoMusicMsg)
    ELSE IF full(d.commands) THEN Error(d, NoCommandsMsg)
    ELSE Ok([d EXCEPT
               !.commands = push_back(@, command_music_set_volume(_hw_music_volume(volume))),
               !.music_volume = _hw_music_volume(volume)], 0)

set_music_volume_fn(d, volume) ==
    IF ~d.music_playing THEN Error(d, NoMusicMsg)
    ELSE IF full(d.commands) THEN Error(d, NoCommandsMsg)
    ELSE Ok([d EXCEPT
               !.commands = push_back(@, command_music_set_volume(_hw_music_volume(volume))),
               !.music_volume = volume], 0)

dmg_music_playing_fn(d) == Ok(d, d.dmg_music_data # 0)

\* play_dmg_music() that leaves the channel volumes as they were
play_dmg_music_fn_keeps_volumes(d, item, speed, loop) ==
    IF full(d.commands) THEN Error(d, NoCommandsMsg)
    ELSE Ok([d EXCEPT
               !.commands = push_back(@, command_dmg_music_play(item, loop, speed)),
               !.dmg_music_position = dmg_music_position_zero,
               !.dmg_music_data = item,
               !.dmg_music_paused = FALSE], 0)

play_dmg_music_fn(d, item, speed, loop) ==
    IF full(d.commands) THEN Error(d, NoCommandsMsg)
    ELSE Ok([d EXCEPT
               !.commands = push_back(@, command_dmg_music_play(item, loop, speed)),
               !.dmg_music_position = dmg_music_position_zero,
               !.dmg_music_left_volume = FixedOfInt(1),
               !.dmg_music_right_volume = FixedOfInt(1),
               !.dmg_music_data = item,
               !.dmg_music_paused = FALSE], 0)

\* stop_dmg_music() that leaves the paused flag as it was
stop_dmg_music_fn_keeps_paused(d) ==
    IF d.dmg_music_data = 0 THEN Error(d, NoDmgMusicMsg)
    ELSE IF full(d.commands) THEN Error(d, NoCommandsMsg)
    ELSE Ok([d EXCEPT
               !.commands = push_back(@, command_dmg_music_stop),
               !.dmg_music_data = 0], 0)

stop_dmg_music_fn(d) ==
    IF d.dmg_music_data = 0 THEN Error(d, NoDmgMusicMsg)
    ELSE IF full(d.commands) THEN Error(d, NoCommandsMsg)
    ELSE Ok([d EXCEPT
               !.commands = push_back(@, command_dmg_music_stop),
               !.dmg_music_data = 0,
               !.dmg_music_paused = FALSE], 0)

dmg_music_paused_fn(d) == Ok(d, d.dmg_music_paused)

\* pause_dmg_music() without the "already paused" assertion
pause_dmg_music_fn_repeatable(d) ==
    IF d.dmg_music_data = 0 THEN Error(d, NoDmgMusicMsg)
    ELSE IF full(d.commands) THEN Error(d, NoCommandsMsg)
    ELSE Ok([d EXCEPT
               !.commands = push_back(@, command_dmg_music_pause),
               !.dmg_music_paused = TRUE], 0)

pause_dmg_music_fn(d) ==
    IF d.dmg_music_data = 0 THEN Error(d, NoDmgMusicMsg)
    ELSE IF d.dmg_music_paused THEN Error(d, DmgMusicPausedMsg)
    ELSE IF full(d.commands) THEN Error(d, NoCommandsMsg)
    ELSE Ok([d EXCEPT
               !.commands = push_back(@, command_dmg_music_pause),
               !.dmg_music_paused = TRUE], 0)

resume_dmg_music_fn(d) ==
    IF ~d.dmg_music_paused THEN Error(d, DmgMusicNotPausedMsg)
    ELSE IF full(d.commands) THEN Error(d, NoCommandsMsg)
    ELSE Ok([d EXCEPT
               !.commands = push_back(@, command_dmg_music_resume),
               !.dmg_music_paused = FALSE], 0)

dmg_music_position_fn(d) ==
    IF d.dmg_music_data = 0 THEN Error(d, NoDmgMusicMsg)
    ELSE Ok(d, d.dmg_music_position)

set_dmg_music_position_fn(d, position) ==
    IF d.dmg_music_data = 0 THEN Error(d, NoDmgMusicMsg)
    ELSE IF full(d.commands) THEN Error(d, NoCommandsMsg)
    ELSE Ok([d EXCEPT
               !.commands = push_back(@, command_dmg_music_set_position(position)),
               !.dmg_music_position = position], 0)

dmg_music_left_volume_fn(d) ==
    IF d.dmg_music_data = 0 THEN Error(d, NoDmgMusicMsg)
    ELSE Ok(d, d.dmg_music_left_volume)

dmg_music_right_volume_fn(d) ==
    IF d.dmg_music_data = 0 THEN Error(d, NoDmgMusicMsg)
    ELSE Ok(d, d.dmg_music_right_volume)

set_dmg_music_volume_fn(d, left_volume, right_volume) ==
    IF d.dmg_music_data = 0 THEN Error(d, NoDmgMusicMsg)
    ELSE IF full(d.commands) THEN Error(d, NoCommandsMsg)
    ELSE Ok([d EXCEPT
               !.commands = push_back(@, command_dmg_music_set_volume(
                                _hw_dmg_music_volume(left_volume),
                                _hw_dmg_music_volume(right_volume))),
               !.dmg_music_left_volume = left_volume,
               !.dmg_music_right_volume = right_volume], 0)

set_dmg_music_left_volume_fn(d, left_volume) ==
    set_dmg_music_volume_fn(d, left_volume, d.dmg_music_right_volume)

set_dmg_music_right_volume_fn(d, right_volume) ==
    set_dmg_music_volume_fn(d, d.dmg_music_left_volume, right_volume)

\* play_sound() that also requires music to be playing
play_sound_fn_needs_music(d, priority, item) ==
    IF ~d.music_playing THEN Error(d, NoMusicMsg)
    ELSE IF full(d.commands) THEN Error(d, NoCommandsMsg)
    ELSE Ok([d EXCEPT !.commands = push_back(@, command_sound_play(priority, item))], 0)

play_sound_fn(d, priority, item) ==
    IF full(d.commands) THEN Error(d, NoCommandsMsg)
    ELSE Ok([d EXCEPT !.commands = push_back(@, command_sound_play(priority, item))], 0)

play_sound_ex_fn(d, priority, item, volume, speed, panning) ==
    IF full(d.commands) THEN Error(d, NoCommandsMsg)
    ELSE Ok([d EXCEPT
               !.commands = push_back(@, command_sound_play_ex(
                                priority, item, _hw_sound_volume(volume),
                                _hw_sound_speed(speed), _hw_sound_panning(panning)))], 0)

stop_all_sounds_fn(d) ==
    IF full(d.commands) THEN Error(d, NoCommandsMsg)
    ELSE Ok([d EXCEPT !.commands = push_back(@, command_sound_stop_all)], 0)

\* the for loop of update() run backwards over the queue
execute_all_reversed(commands) ==
    [i \in 1..Len(commands) |-> execute(commands[Len(commands) + 1 - i])]

\* the for loop of update(): the driver calls of the queued commands, in order
execute_all(commands) == [i \in 1..Len(commands) |-> execute(commands[i])]

\* the driver calls update() makes, in call order; hw_playing is the driver's
\* answer to music_playing()
update_calls(d, hw_playing) ==
    <<HwCall("update", <<>>)>>
    \o execute_all(d.commands)
    \o (IF d.music_playing THEN <<HwCall("music_playing", <<>>)>> ELSE <<>>)
    \o (IF d.music_playing /\ hw_playing THEN <<HwCall("music_position", <<>>)>> ELSE <<>>)
    \o (IF d.dmg_music_data # 0 THEN <<HwCall("dmg_music_position", <<>>)>> ELSE <<>>)

\* update() that forgets to clear the queue
update_fn_keeps_queue(d, hw_playing, hw_position, pattern, row) ==
    LET d2 == IF d.music_playing /\ hw_playing
              THEN [d EXCEPT !.music_position = hw_position]
              ELSE d
        d3 == IF d2.dmg_music_data # 0 /\ pattern >= 0
              THEN [d2 EXCEPT !.dmg_music_position = [pattern |-> pattern, row |-> row]]
              ELSE d2
    IN  Ok(d3, 0)

\* update() that takes the driver's position whenever the shadow state says
\* that music plays
update_fn_trusts_shadow(d, hw_playing, hw_position, pattern, row) ==
    LET d1 == [d EXCEPT !.commands = <<>>]
        d2 == IF d1.music_playing
              THEN [d1 EXCEPT !.music_position = hw_position]
              ELSE d1
        d3 == IF d2.dmg_music_data # 0 /\ pattern >= 0
              THEN [d2 EXCEPT !.dmg_music_position = [pattern |-> pattern, row |-> row]]
              ELSE d2
    IN  Ok(d3, 0)

\* update() that takes the driver's pattern and row even when the pattern
\* is negative
update_fn_any_pattern(d, hw_playing, hw_position, pattern, row) ==
    LET d1 == [d EXCEPT !.commands = <<>>]
        d2 == IF d1.music_playing /\ hw_playing
              THEN [d1 EXCEPT !.music_position = hw_position]
              ELSE d1
        d3 == IF d2.dmg_music_data # 0
              THEN [d2 EXCEPT !.dmg_music_position = [pattern |-> pattern, row |-> row]]
              ELSE d2
    IN  Ok(d3, 0)

\* update() that clears music_playing when the driver reports no playback
update_fn_syncs_playing(d, hw_playing, hw_position, pattern, row) ==
    LET d1 == [d EXCEPT !.commands = <<>>]
        d2 == IF d1.music_playing /\ hw_playing
              THEN [d1 EXCEPT !.music_position = hw_position]
              ELSE [d1 EXCEPT !.music_playing = FALSE]
        d3 == IF d2.dmg_music_data # 0 /\ pattern >= 0
              THEN [d2 EXCEPT !.dmg_music_position = [pattern |-> pattern, row |-> row]]
              ELSE d2
    IN  Ok(d3, 0)

\* update(), given what the driver answers: hw_playing and hw_position for
\* music_playing() and music_position(), pattern and row for dmg_music_position()
update_fn(d, hw_playing, hw_position, pattern, row) ==
    LET d1 == [d EXCEPT !.commands = <<>>]
        d2 == IF d1.music_playing /\ hw_playing
              THEN [d1 EXCEPT !.music_position = hw_position]
              ELSE d1
        d3 == IF d2.dmg_music_data # 0 /\ pattern >= 0
              THEN [d2 EXCEPT !.dmg_music_position = [pattern |-> pattern, row |-> row]]
              ELSE d2
    IN  Ok(d3, 0)

(***************************************************************************)
(* The hardware driver (hw::audio), as far as the commands drive it: which *)
(* of music and DMG music it plays, and which of them it holds paused.     *)
(***************************************************************************)
hw_audio_static(observed) ==
    [observed |-> observed, music_playing |-> FALSE, music_paused |-> FALSE,
     dmg_music_playing |-> FALSE, dmg_music_paused |-> FALSE]

\* the driver after one call of a primitive
hw_audio_call(h, call) ==
    CASE call.fn = "play_music" -> [h EXCEPT !.music_playing = TRUE, !.music_paused = FALSE]
      [] call.fn = "stop_music" -> [h EXCEPT !.music_playing = FALSE, !.music_paused = FALSE]
      [] call.fn = "pause_music" -> [h EXCEPT !.music_paused = h.music_playing]
      [] call.fn = "resume_music" -> [h EXCEPT !.music_paused = FALSE]
      [] call.fn = "play_dmg_music" ->
            [h EXCEPT !.dmg_music_playing = TRUE, !.dmg_music_paused = FALSE]
      [] call.fn = "stop_dmg_music" ->
            [h EXCEPT !.dmg_music_playing = FALSE, !.dmg_music_paused = FALSE]
      [] call.fn = "pause_dmg_music" -> [h EXCEPT !.dmg_music_paused = h.dmg_music_playing]
      [] call.fn = "resume_dmg_music" -> [h EXCEPT !.dmg_music_paused = FALSE]
      [] OTHER -> h

RECURSIVE hw_audio_calls(_, _)
\* the driver after a sequence of calls, made in order
hw_audio_calls(h, calls) ==
    IF calls = <<>> \/ ~h.observed THEN h
    ELSE hw_audio_calls(hw_audio_call(h, Head(calls)), Tail(calls))

\* commit(): delegates to the driver
commit_calls == <<HwCall("commit", <<>>)>>

\* commit() that also clears the queue
commit_fn_clears_queue(d) == Ok([d EXCEPT !.commands = <<>>], 0)

commit_fn(d) == Ok(d, 0)

\* stop() that does not discard the pending commands
stop_fn_keeps_queue(d) ==
    LET r2 == IF d.music_playing THEN stop_music_fn(d) ELSE Ok(d, 0)
    IN  IF r2.fatal # "" THEN r2 ELSE stop_all_sounds_fn(r2.data)

\* stop() that stops the sounds before the music
stop_fn_sounds_first(d) ==
    LET d1 == [d EXCEPT !.commands = <<>>]
        r2 == stop_all_sounds_fn(d1)
    IN  IF r2.fatal # "" THEN r2
        ELSE IF r2.data.music_playing THEN stop_music_fn(r2.data) ELSE r2

\* stop() that calls stop_music() whether music plays or not
stop_fn_always_stops_music(d) ==
    LET d1 == [d EXCEPT !.commands = <<>>]
        r2 == stop_music_fn(d1)
    IN  IF r2.fatal # "" THEN r2 ELSE stop_all_sounds_fn(r2.data)

\* stop()
stop_fn(d) ==
    LET d1 == [d EXCEPT !.commands = <<>>]
        r2 == IF d1.music_playing THEN stop_music_fn(d1) ELSE Ok(d1, 0)
    IN  IF r2.fatal # "" THEN r2 ELSE stop_all_sounds_fn(r2.data)

(***************************************************************************)
(* class enemy of the sample game.  Positions are the vertical sprite      *)
(* position in quarters of a pixel; an event is the enemy_event the enemy  *)
(* is built from (no bullet events); the sprite's palette, rotation, scale *)
(* and explosion are not part of the state.  dead_updates and              *)
(* death_counter observe the enemy: the update() calls since its life      *)
(* reached 0 and the value _add_damage() gave _move_event_counter then.    *)
(***************************************************************************)
damage_frames == 12

\* constants::enemies_invencible_frames
enemies_invencible_frames == 2

\* constants::background_speed, in quarters of a pixel per frame
background_speed == 4

DeathAnims == {"ROTATE", "HORIZONTAL_SCALE", "VERTICAL_SCALE", "EXPLOSION"}

\* the move events of an enemy: it comes down into the view, waits, and
\* leaves downwards or stays
MoveEventLists ==
    {<<[delta_position |-> 20, duration_frames |-> 2],
       [delta_position |-> 0, duration_frames |-> 1],
       [delta_position |-> 30, duration_frames |-> 1]>>,
     <<[delta_position |-> 25, duration_frames |-> 1],
       [delta_position |-> 0, duration_frames |-> 0]>>}

StartPositions == {-70, -20}

Lives == {1, 3}

Damages == {1, 2}

\* no enemy constructed
no_enemy == <<>>

\* enemy::enemy()
enemy_ctor(move_events, start_position, life, death_anim) ==
    [move_events |-> move_events,
     death_anim |-> death_anim,
     position |-> start_position,
     _move_action |-> move_events[1].delta_position,
     _life |-> life,
     _move_event_counter |-> move_events[1].duration_frames,
     _bullet_event_counter |-> 0,
     _move_event_index |-> 0,
     _damage_palette_counter |-> 0,
     _ignore_hero_bullet_counter |-> enemies_invencible_frames,
     dead_updates |-> 0,
     death_counter |-> 0]

\* enemy::done()
enemy_done(e) == e._move_event_index = Len(e.move_events)

\* enemy::_is_outside()
_is_outside(e) == e.position < -view_height \/ e.position > view_height

\* sprite_move_by_action::update()
move_action_update(e) == [e EXCEPT !.position = @ + e._move_action]

\* the end of update(): the damage palette counter
update_damage_palette(e) ==
    IF e._damage_palette_counter # 0
    THEN [e EXCEPT !._damage_palette_counter = @ - 1]
    ELSE e

\* update() of an enemy with life left
update_alive(e) ==
    LET e1 == IF e._ignore_hero_bullet_counter # 0
              THEN [e EXCEPT !._ignore_hero_bullet_counter = @ - 1]
              ELSE e
        next_event == e1.move_events[e1._move_event_index + 2]
    IN  IF e1._move_event_counter # 0
        THEN update_damage_palette(
                move_action_update([e1 EXCEPT !._move_event_counter = @ - 1]))
        ELSE IF e1._move_event_index + 1 < Len(e1.move_events)
        THEN update_damage_palette(
                move_action_update(
                   [e1 EXCEPT !._move_event_index = @ + 1,
                              !._move_action = next_event.delta_position,
                              !._move_event_counter = next_event.duration_frames]))
        ELSE IF _is_outside(e1)
        THEN [e1 EXCEPT !._move_event_index = Len(e1.move_events)]
        ELSE update_damage_palette(move_action_update(e1))

\* update() of an enemy with no life left
update_dead(e) ==
    LET e1 == [e EXCEPT !._move_event_counter = @ - 1, !.dead_updates = @ + 1]
        e2 == move_action_update(e1)
    IN  update_damage_palette(
           IF e1._move_event_counter # 0
           THEN IF _is_outside(e2)
                THEN [e2 EXCEPT !._move_event_counter = 1]
                ELSE e2
           ELSE [e1 EXCEPT !._move_event_index = Len(e1.move_events)])

\* enemy::update()
enemy_update_fn(e) == IF e._life # 0 THEN update_alive(e) ELSE update_dead(e)

\* the death branch of _add_damage(); affine_mats_available says whether
\* available_count() exceeds constants::reserved_sprite_affine_mats
death_anim_start(e, affine_mats_available) ==
    LET e1 == [e EXCEPT !._move_event_counter = 1]
    IN  IF e.death_anim = "EXPLOSION"
        THEN move_action_update(
                [e1 EXCEPT !._move_event_counter = 8 * 6,
                           !._move_action = background_speed \div 4])
        ELSE IF affine_mats_available
        THEN move_action_update(
                [e1 EXCEPT !._move_event_counter = 30,
                           !._move_action = background_speed])
        ELSE e1

\* _add_damage() without the lower bound on the life
_add_damage_fn_no_max(e, damage, affine_mats_available) ==
    LET life == e._life - damage
        e1 == [e EXCEPT !._life = ToInt16(life)]
        e2 == IF e1._damage_palette_counter = 0
              THEN [e1 EXCEPT !._damage_palette_counter = damage_frames]
              ELSE e1
        e3 == death_anim_start(e2, affine_mats_available)
    IN  IF life = 0 THEN [e3 EXCEPT !.death_counter = e3._move_event_counter] ELSE e2

\* enemy::_add_damage()
_add_damage_fn(e, damage, affine_mats_available) ==
    LET life == IF e._life - damage > 0 THEN e._life - damage ELSE 0
        e1 == [e EXCEPT !._life = ToInt16(life)]
        e2 == IF e1._damage_palette_counter = 0
              THEN [e1 EXCEPT !._damage_palette_counter = damage_frames]
              ELSE e1
        e3 == death_anim_start(e2, affine_mats_available)
    IN  IF life = 0 THEN [e3 EXCEPT !.death_counter = e3._move_event_counter] ELSE e2

(***************************************************************************)
(* The state machine.                                                      *)
(***************************************************************************)
Init ==
    /\ data = static_data
    /\ fatal = ""
    /\ hw_executed = 0
    /\ hw_audio = hw_audio_static(FALSE)
    /\ enemy = no_enemy

\* a public operation whose outcome is r and which executes no command
Step(r) ==
    /\ fatal = ""
    /\ data' = r.data
    /\ fatal' = r.fatal
    /\ hw_executed' = 0
    /\ UNCHANGED <<hw_audio, enemy>>

music_playing == Step(music_playing_fn(data))

playing_music_item == Step(playing_music_item_fn(data))

play_music(item, volume, loop) == Step(play_music_fn(data, item, volume, loop))

stop_music == Step(stop_music_fn(data))

music_paused == Step(music_paused_fn(data))

pause_music == Step(pause_music_fn(data))

resume_music == Step(resume_music_fn(data))

music_position == Step(music_position_fn(data))

set_music_position(position) == Step(set_music_position_fn(data, position))

music_volume == Step(music_volume_fn(data))

set_music_volume(volume) == Step(set_music_volume_fn(data, volume))

dmg_music_playing == Step(dmg_music_playing_fn(data))

play_dmg_music(item, speed, loop) == Step(play_dmg_music_fn(data, item, speed, loop))

stop_dmg_music == Step(stop_dmg_music_fn(data))

dmg_music_paused == Step(dmg_music_paused_fn(data))

pause_dmg_music == Step(pause_dmg_music_fn(data))

resume_dmg_music == Step(resume_dmg_music_fn(data))

dmg_music_position == Step(dmg_music_position_fn(data))

set_dmg_music_position(position) == Step(set_dmg_music_position_fn(data, position))

dmg_music_left_volume == Step(dmg_music_left_volume_fn(data))

dmg_music_right_volume == Step(dmg_music_right_volume_fn(data))

set_dmg_music_left_volume(left_volume) ==
    Step(set_dmg_music_left_volume_fn(data, left_volume))

set_dmg_music_right_volume(right_volume) ==
    Step(set_dmg_music_right_volume_fn(data, right_volume))

set_dmg_music_volume(left_volume, right_volume) ==
    Step(set_dmg_music_volume_fn(data, left_volume, right_volume))

play_sound(priority, item) == Step(play_sound_fn(data, priority, item))

play_sound_ex(priority, item, volume, speed, panning) ==
    Step(play_sound_ex_fn(data, priority, item, volume, speed, panning))

stop_all_sounds == Step(stop_all_sounds_fn(data))

update(hw_playing, hw_position, pattern, row) ==
    /\ fatal = ""
    /\ data' = update_fn(data, hw_playing, hw_position, pattern, row).data
    /\ hw_executed' = Len(execute_all(data.commands))
    /\ hw_audio' = hw_audio_calls(hw_audio, execute_all(data.commands))
    /\ UNCHANGED <<fatal, enemy>>

commit == Step(commit_fn(data))

stop == Step(stop_fn(data))

MusicQueries ==
    \/ music_playing
    \/ playing_music_item
    \/ music_paused
    \/ music_position
    \/ music_volume

DmgMusicQueries ==
    \/ dmg_music_playing
    \/ dmg_music_paused
    \/ dmg_music_position
    \/ dmg_music_left_volume
    \/ dmg_music_right_volume

MusicOps(items, volumes, loops, positions) ==
    \/ \E item \in items, volume \in volumes, loop \in loops :
          play_music(item, volume, loop)
    \/ stop_music
    \/ pause_music
    \/ resume_music
    \/ \E position \in positions : set_music_position(position)
    \/ \E volume \in volumes : set_music_volume(volume)

DmgMusicOps(items, speeds, loops, positions, volumes) ==
    \/ \E item \in items, speed \in speeds, loop \in loops :
          play_dmg_music(item, speed, loop)
    \/ stop_dmg_music
    \/ pause_dmg_music
    \/ resume_dmg_music
    \/ \E position \in positions : set_dmg_music_position(position)
    \/ \E volume \in volumes : set_dmg_music_left_volume(volume)
    \/ \E volume \in volumes : set_dmg_music_right_volume(volume)
    \/ \E left_volume \in volumes, right_volume \in volumes :
          set_dmg_music_volume(left_volume, right_volume)

SoundOps ==
    \/ \E priority \in Priorities, item \in SoundItems : play_sound(priority, item)
    \/ \E priority \in Priorities, item \in SoundItems, volume \in SoundVolumes,
          speed \in SoundSpeeds, panning \in SoundPannings :
          play_sound_ex(priority, item, volume, speed, panning)
    \/ stop_all_sounds

FramePump(hw_positions, hw_patterns, hw_rows) ==
    \/ \E hw_playing \in BOOLEAN, hw_position \in hw_positions,
          pattern \in hw_patterns, row \in hw_rows :
          update(hw_playing, hw_position, pattern, row)
    \/ commit
    \/ stop

Next ==
    \/ MusicQueries
    \/ DmgMusicQueries
    \/ MusicOps(Items, Volumes, Loops, Positions)
    \/ DmgMusicOps(DmgItems, DmgSpeeds, Loops, DmgPositions, DmgVolumes)
    \/ SoundOps
    \/ FramePump(Positions, HwPatterns, HwRows)

Spec == Init /\ [][Next]_vars

NextMusic ==
    \/ MusicQueries
    \/ MusicOps(MusicItems, MusicVolumes, MusicLoops, MusicPositions)
    \/ FramePump(MusicHwPositions, {-1}, {0})

SpecMusic == Init /\ [][NextMusic]_vars

VolumeQueries ==
    \/ music_volume
    \/ dmg_music_left_volume
    \/ dmg_music_right_volume

VolumeOps(volumes) ==
    \/ \E item \in Items, volume \in volumes, loop \in Loops :
          play_music(item, volume, loop)
    \/ \E volume \in volumes : set_music_volume(volume)
    \/ \E item \in DmgItems, speed \in DmgSpeeds, loop \in Loops :
          play_dmg_music(item, speed, loop)
    \/ \E volume \in volumes : set_dmg_music_left_volume(volume)
    \/ \E volume \in volumes : set_dmg_music_right_volume(volume)
    \/ \E left_volume \in volumes, right_volume \in volumes :
          set_dmg_music_volume(left_volume, right_volume)

NextVolumes ==
    \/ VolumeQueries
    \/ VolumeOps(VolumeArgs)
    \/ FramePump(Positions, HwPatterns, HwRows)

SpecVolumes == Init /\ [][NextVolumes]_vars

SoundArgOps ==
    \/ \E priority \in Priorities, item \in SoundItems, volume \in SoundVolumes,
          speed \in SoundSpeeds, panning \in PanningArgs :
          play_sound_ex(priority, item, volume, speed, panning)
    \/ \E priority \in Priorities, item \in SoundItems, volume \in SoundVolumeArgs,
          speed \in SoundSpeeds, panning \in SoundPannings :
          play_sound_ex(priority, item, volume, speed, panning)
    \/ \E priority \in Priorities, item \in SoundItems : play_sound(priority, item)
    \/ stop_all_sounds

NextSound ==
    \/ SoundArgOps
    \/ FramePump(Positions, {-1}, {0})

SpecSound == Init /\ [][NextSound]_vars

NextDmg ==
    \/ DmgMusicQueries
    \/ DmgMusicOps(DmgItems, DmgSpeeds, Loops, DmgPositions, DmgVolumes)
    \/ FramePump(Positions, DmgHwPatterns, DmgHwRows)

SpecDmg == Init /\ [][NextDmg]_vars

NextDmgPlay ==
    \/ DmgMusicQueries
    \/ DmgMusicOps(DmgItemArgs, DmgSpeeds, Loops, DmgPositions, DmgVolumeArgs)
    \/ \E item \in Items, volume \in Volumes, loop \in Loops :
          play_music(item, volume, loop)
    \/ pause_music
    \/ FramePump(Positions, {-1}, {0})

SpecDmgPlay == Init /\ [][NextDmgPlay]_vars

NextVolumeScale ==
    \/ \E item \in Items, volume \in MusicScaleArgs, loop \in Loops :
          play_music(item, volume, loop)
    \/ \E volume \in MusicScaleArgs : set_music_volume(volume)
    \/ \E item \in DmgItems, speed \in DmgSpeeds, loop \in Loops :
          play_dmg_music(item, speed, loop)
    \/ \E volume \in DmgScaleArgs : set_dmg_music_left_volume(volume)
    \/ \E volume \in DmgScaleArgs : set_dmg_music_right_volume(volume)
    \/ \E left_volume \in DmgScaleArgs, right_volume \in DmgScaleArgs :
          set_dmg_music_volume(left_volume, right_volume)
    \/ FramePump(Positions, {-1}, {0})

SpecVolumeScale == Init /\ [][NextVolumeScale]_vars

\* the initial state with the driver observed
InitDriver ==
    /\ data = static_data
    /\ fatal = ""
    /\ hw_executed = 0
    /\ hw_audio = hw_audio_static(TRUE)
    /\ enemy = no_enemy

\* the music and DMG music operations, update() and commit(), without stop()
NextDriver ==
    \/ MusicOps(Items, Volumes, Loops, Positions)
    \/ DmgMusicOps(DmgItems, DmgSpeeds, Loops, DmgPositions, DmgVolumes)
    \/ \E hw_playing \in BOOLEAN, hw_position \in Positions,
          pattern \in HwPatterns, row \in HwRows :
          update(hw_playing, hw_position, pattern, row)
    \/ commit

SpecDriver == InitDriver /\ [][NextDriver]_vars

\* the music operations and the frame pump, stop() included
NextShutdown ==
    \/ MusicOps(Items, Volumes, Loops, Positions)
    \/ FramePump(Positions, HwPatterns, HwRows)

SpecShutdown == InitDriver /\ [][NextShutdown]_vars

\* the enemy after _add_damage(): a death plays the death sound through
\* play_sound() of the manager
add_damage(damage, affine_mats_available) ==
    LET e == _add_damage_fn(enemy, damage, affine_mats_available)
    IN  /\ enemy' = e
        /\ IF e._life = 0
           THEN \E priority \in Priorities, item \in SoundItems :
                   LET r == play_sound_fn(data, priority, item)
                   IN  data' = r.data /\ fatal' = r.fatal
           ELSE UNCHANGED <<data, fatal>>
        /\ UNCHANGED <<hw_executed, hw_audio>>

\* enemy::check_hero_bullet() with a bullet that hits the enemy
check_hero_bullet(bullet_damage, affine_mats_available) ==
    /\ fatal = ""
    /\ ~enemy_done(enemy)
    /\ enemy._life # 0
    /\ enemy._ignore_hero_bullet_counter = 0
    /\ add_damage(bullet_damage, affine_mats_available)

\* enemy::check_hero_bomb() with a bomb that reaches the enemy
check_hero_bomb(affine_mats_available) ==
    /\ fatal = ""
    /\ ~enemy_done(enemy)
    /\ enemy._life # 0
    /\ add_damage(enemy._life, affine_mats_available)

\* enemy::update(), called until the enemy is done
enemy_update ==
    /\ fatal = ""
    /\ ~enemy_done(enemy)
    /\ enemy' = enemy_update_fn(enemy)
    /\ UNCHANGED <<data, fatal, hw_executed, hw_audio>>

InitEnemy ==
    /\ data = static_data
    /\ fatal = ""
    /\ hw_executed = 0
    /\ hw_audio = hw_audio_static(FALSE)
    /\ \E move_events \in MoveEventLists, start_position \in StartPositions,
          life \in Lives, death_anim \in DeathAnims :
          enemy = enemy_ctor(move_events, start_position, life, death_anim)

NextEnemy ==
    \/ \E bullet_damage \in Damages, affine_mats_available \in BOOLEAN :
          check_hero_bullet(bullet_damage, affine_mats_available)
    \/ \E affine_mats_available \in BOOLEAN : check_hero_bomb(affine_mats_available)
    \/ enemy_update

\* update() is called every frame
SpecEnemy == InitEnemy /\ [][NextEnemy]_vars /\ WF_vars(enemy_update)

(***************************************************************************)
(* Claims.                                                                 *)
(***************************************************************************)
\* a step of a public operation that enqueues one command when it succeeds
EnqueueOp ==
    \/ MusicOps(Items, Volumes, Loops, Positions)
    \/ DmgMusicOps(DmgItems, DmgSpeeds, Loops, DmgPositions, DmgVolumes)
    \/ SoundOps

\* a step of update(), whatever the driver answers
UpdateOp ==
    \E hw_playing \in BOOLEAN, hw_position \in Positions,
       pattern \in HwPatterns, row \in HwRows :
       update(hw_playing, hw_position, pattern, row)

\* the driver primitives update() calls besides those of the queued commands
UpdateOwnCalls == {"update", "music_playing", "music_position", "dmg_music_position"}

\* C1: in every reachable state the command queue holds between 0 and
\* BN_CFG_AUDIO_MAX_COMMANDS commands, and an enqueuing operation called with
\* a full queue ends in the fatal state, the queue and the shadow state as
\* they were: it neither enqueues nor drops the command and carries on.
C1_QueueWithinCapacity ==
    /\ [](Len(data.commands) \in 0..BN_CFG_AUDIO_MAX_COMMANDS)
    /\ [][(full(data.commands) /\ EnqueueOp) => (fatal' # "" /\ data' = data)]_vars

\* C1 witness: an operation found the queue full and failed
C1_Witness ==
    /\ fatal = NoCommandsMsg
    /\ Len(data.commands) = BN_CFG_AUDIO_MAX_COMMANDS

\* C2: update() executes exactly the queued commands, each once and in
\* enqueue order (the i-th command call of update() is the i-th queued
\* command's primitive, and its other driver calls are update()'s own), and
\* leaves the queue empty.
C2_UpdateDrainsInOrder ==
    [][\A hw_playing \in BOOLEAN, hw_position \in Positions,
          pattern \in HwPatterns, row \in HwRows :
          update(hw_playing, hw_position, pattern, row) =>
             LET calls == update_calls(data, hw_playing)
                 n == Len(data.commands)
             IN  /\ Len(calls) >= n + 1
                 /\ \A i \in 1..n : calls[i + 1] = execute(data.commands[i])
                 /\ \A i \in 1..Len(calls) :
                       (i = 1 \/ i > n + 1) => calls[i].fn \in UpdateOwnCalls
                 /\ hw_executed' = n
                 /\ data'.commands = <<>>]_vars

\* C2 witness: update() has just executed a full queue
C2_Witness ==
    /\ hw_executed = BN_CFG_AUDIO_MAX_COMMANDS
    /\ data.commands = <<>>
    /\ fatal = ""

\* C3 as claimed: over any sequence of operations, update() and stop(), a
\* command leaves the queue only by being executed: every step either keeps
\* the queued commands (possibly adding to them) or executes all of them.
C3_Original ==
    [][\/ /\ Len(data'.commands) >= Len(data.commands)
          /\ SubSeq(data'.commands, 1, Len(data.commands)) = data.commands
       \/ /\ hw_executed' = Len(data.commands)
          /\ UpdateOp]_vars

\* C3 amended: every enqueued command is executed exactly once, in enqueue
\* order, by the next update(), unless a stop() before that update() discards
\* it unexecuted: a step that is not stop() keeps the queued commands or is an
\* update() that executes them all, and a stop() executes none.
C3_ConsumedOnceUnlessStopped ==
    [][/\ ~stop =>
             \/ /\ Len(data'.commands) >= Len(data.commands)
                /\ SubSeq(data'.commands, 1, Len(data.commands)) = data.commands
                /\ hw_executed' = 0
             \/ /\ hw_executed' = Len(data.commands)
                /\ data'.commands = <<>>
                /\ UpdateOp
       /\ stop => hw_executed' = 0]_vars

\* C3 witness: a queue of pending commands was executed by update()
C3_Witness ==
    /\ hw_executed >= 2
    /\ data.commands = <<>>

\* the last command of a non-empty queue
LastCommand == data.commands[Len(data.commands)]

\* C4: from any state with a non-full queue, right after play_music(item,
\* volume, loop) and before any update(): the call succeeded, music_playing()
\* is true, music_paused() is false, music_position() is 0, music_volume() is
\* volume and playing_music_item() is item.
C4_PlayMusicShadow ==
    [][\A item \in MusicItems, volume \in MusicVolumes, loop \in MusicLoops :
          (~full(data.commands) /\ play_music(item, volume, loop)) =>
             /\ fatal' = ""
             /\ music_playing_fn(data') = Ok(data', TRUE)
             /\ music_paused_fn(data') = Ok(data', FALSE)
             /\ music_position_fn(data') = Ok(data', 0)
             /\ music_volume_fn(data') = Ok(data', volume)
             /\ playing_music_item_fn(data') = Ok(data', <<item>>)]_vars

\* C4 witness: play_music() of item 2 at volume 1 was called on paused music
C4_Witness ==
    /\ Len(data.commands) >= 2
    /\ LastCommand._type = "MUSIC_PLAY"
    /\ data.commands[Len(data.commands) - 1]._type = "MUSIC_PAUSE"
    /\ data.music_playing /\ ~data.music_paused
    /\ data.music_item_id = 2
    /\ data.music_volume = FixedOfInt(1)
    /\ fatal = ""

\* C5: in every reachable state, music_paused implies music_playing.
C5_PausedImpliesPlaying == data.music_paused => data.music_playing

\* C5 witness: music is paused
C5_Witness == data.music_paused /\ data.music_playing /\ data.commands = <<>>

\* C6: in every reachable state, dmg_music_paused implies that the DMG music
\* data handle is present.
C6_DmgPausedImpliesActive == data.dmg_music_paused => data.dmg_music_data # 0

\* C6 witness: DMG music is paused
C6_Witness == data.dmg_music_paused /\ data.dmg_music_data # 0 /\ data.commands = <<>>

\* a raw fixed volume within the normalized range [0, 1]
InRange(volume) == 0 <= volume /\ volume <= Pow2(FixedPrecision)

VolumesInRange(d) ==
    /\ InRange(d.music_volume)
    /\ InRange(d.dmg_music_left_volume)
    /\ InRange(d.dmg_music_right_volume)

\* a step of a volume-writing operation called with a volume outside [0, 1]
OutOfRangeCall ==
    \E volume \in VolumeArgs :
       /\ ~InRange(volume)
       /\ \/ \E item \in Items, loop \in Loops : play_music(item, volume, loop)
          \/ set_music_volume(volume)
          \/ set_dmg_music_left_volume(volume)
          \/ set_dmg_music_right_volume(volume)
          \/ \E other \in VolumeArgs :
                \/ set_dmg_music_volume(volume, other)
                \/ set_dmg_music_volume(other, volume)

\* C7 as claimed: in every reachable state the three shadow volume fields are
\* within [0, 1], whatever volumes the callers pass.
C7_Original == VolumesInRange(data)

\* C7 amended: the shadow volume fields are within [0, 1] as long as every
\* volume passed to play_music, set_music_volume and the set_dmg_music_volume
\* operations is within [0, 1]; the operations store the argument unchecked:
\* the fields start in range, and only a call with an out-of-range volume
\* takes them out of range.
C7_VolumesInRangeForInRangeArgs ==
    /\ VolumesInRange(data)
    /\ [][(VolumesInRange(data) /\ ~OutOfRangeCall) => VolumesInRange(data')]_vars

\* C7 witness: callers have set all three volumes to values within [0, 1]
C7_Witness ==
    /\ data.music_playing
    /\ data.music_volume = 4096
    /\ data.dmg_music_data # 0
    /\ data.dmg_music_left_volume = 0
    /\ data.dmg_music_right_volume = 4096
    /\ fatal = ""

\* a step of play_music() that succeeds
PlayMusicOk ==
    /\ \E item \in Items, volume \in Volumes, loop \in Loops :
          play_music(item, volume, loop)
    /\ fatal' = ""

\* C8 as claimed: pause_music() right after a successful play_music()
\* succeeds, and a pause_music() right after a successful pause_music() fails
\* as "already paused".
C8_Original ==
    [][/\ PlayMusicOk => pause_music_fn(data').fatal = ""
       /\ (pause_music /\ fatal' = "") =>
             pause_music_fn(data') = Error(data', MusicPausedMsg)]_vars

\* C8 amended: pause_music() right after a successful play_music() succeeds
\* when that play_music() left room in the queue, and is fatal for lack of a
\* free command when it filled the queue; a pause_music() right after a
\* successful pause_music() fails as "already paused".
C8_PauseAfterPlay ==
    [][/\ (PlayMusicOk /\ ~full(data'.commands)) =>
             /\ pause_music_fn(data').fatal = ""
             /\ pause_music_fn(data').data.music_paused
       /\ (PlayMusicOk /\ full(data'.commands)) =>
             pause_music_fn(data') = Error(data', NoCommandsMsg)
       /\ (pause_music /\ fatal' = "") =>
             pause_music_fn(data') = Error(data', MusicPausedMsg)]_vars

\* C8 witness: the second of two pause_music() calls after play_music() failed
C8_Witness ==
    /\ fatal = MusicPausedMsg
    /\ Len(data.commands) >= 2
    /\ LastCommand._type = "MUSIC_PAUSE"
    /\ data.commands[Len(data.commands) - 1]._type = "MUSIC_PLAY"

\* C9: resume_music() succeeds only when music is paused (and then clears the
\* paused flag); when music is not paused, playing or not, it is fatal with
\* "Music is not paused" and changes nothing.
C9_ResumeNeedsPaused ==
    [][resume_music =>
          /\ fatal' = "" => (data.music_paused /\ ~data'.music_paused)
          /\ ~data.music_paused => (fatal' = MusicNotPausedMsg /\ data' = data)]_vars

\* C9 witness: resume_music() failed on music that plays unpaused
C9_Witness ==
    /\ fatal = MusicNotPausedMsg
    /\ data.music_playing

\* C10: whenever shadow music_playing is false, stop_music, pause_music,
\* set_music_volume, set_music_position, music_volume and music_position each
\* fail with "There's no music playing"; music_playing is false initially,
\* after a successful stop_music() and after stop().
C10_NeedsMusicPlaying ==
    /\ ~data.music_playing
    /\ [](~data.music_playing =>
             /\ stop_music_fn(data) = Error(data, NoMusicMsg)
             /\ pause_music_fn(data) = Error(data, NoMusicMsg)
             /\ \A volume \in Volumes :
                   set_music_volume_fn(data, volume) = Error(data, NoMusicMsg)
             /\ \A position \in Positions :
                   set_music_position_fn(data, position) = Error(data, NoMusicMsg)
             /\ music_volume_fn(data) = Error(data, NoMusicMsg)
             /\ music_position_fn(data) = Error(data, NoMusicMsg))
    /\ [][((stop_music /\ fatal' = "") \/ stop) => ~data'.music_playing]_vars

\* C10 witness: an operation after stop_music() failed for lack of music
C10_Witness ==
    /\ fatal = NoMusicMsg
    /\ Len(data.commands) >= 1
    /\ LastCommand._type = "MUSIC_STOP"

\* C11: the DMG music operations have the symmetric preconditions: with no
\* DMG music active (no data handle), stop_dmg_music, pause_dmg_music,
\* set_dmg_music_position, set_dmg_music_volume (and its left/right forms) and
\* the position and volume queries each fail with "There's no DMG music
\* playing"; pause_dmg_music on paused DMG music fails with "DMG music is
\* already paused"; resume_dmg_music on DMG music that is not paused fails
\* with "DMG music is not paused".  Every failure leaves the data as it was.
C11_DmgPreconditions ==
    /\ data.dmg_music_data = 0 =>
          /\ stop_dmg_music_fn(data) = Error(data, NoDmgMusicMsg)
          /\ pause_dmg_music_fn(data) = Error(data, NoDmgMusicMsg)
          /\ \A position \in DmgPositions :
                set_dmg_music_position_fn(data, position) = Error(data, NoDmgMusicMsg)
          /\ \A left_volume \in DmgVolumes, right_volume \in DmgVolumes :
                /\ set_dmg_music_volume_fn(data, left_volume, right_volume)
                      = Error(data, NoDmgMusicMsg)
                /\ set_dmg_music_left_volume_fn(data, left_volume)
                      = Error(data, NoDmgMusicMsg)
                /\ set_dmg_music_right_volume_fn(data, right_volume)
                      = Error(data, NoDmgMusicMsg)
          /\ dmg_music_position_fn(data) = Error(data, NoDmgMusicMsg)
          /\ dmg_music_left_volume_fn(data) = Error(data, NoDmgMusicMsg)
          /\ dmg_music_right_volume_fn(data) = Error(data, NoDmgMusicMsg)
    /\ data.dmg_music_paused =>
          pause_dmg_music_fn(data) = Error(data, DmgMusicPausedMsg)
    /\ ~data.dmg_music_paused =>
          resume_dmg_music_fn(data) = Error(data, DmgMusicNotPausedMsg)

\* C11 witness: pause_dmg_music() failed on DMG music that is already paused
C11_Witness ==
    /\ fatal = DmgMusicPausedMsg
    /\ data.dmg_music_data # 0
    /\ data.dmg_music_paused

\* C12 as claimed: after stop(), from any reachable state, the queue holds
\* the SoundStopAll command and nothing else.
C12_Original ==
    [][stop => data'.commands = <<command_sound_stop_all>>]_vars

\* C12 amended: stop() always succeeds and leaves in the queue only commands
\* of its own: the last one is SoundStopAll, and it is preceded by one
\* MusicStop, and nothing else, exactly when music was playing at the call.
C12_OnlyStopCommandsPending ==
    [][stop =>
          LET n == Len(data'.commands)
          IN  /\ fatal' = ""
              /\ n \in {1, 2}
              /\ data'.commands[n]._type = "SOUND_STOP_ALL"
              /\ (n = 2) <=> data.music_playing
              /\ (n = 2) => data'.commands[1]._type = "MUSIC_STOP"]_vars

\* C12 witness: stop() was called while music was playing
C12_Witness ==
    /\ Len(data.commands) = 2
    /\ data.commands[1]._type = "MUSIC_STOP"
    /\ data.commands[2]._type = "SOUND_STOP_ALL"
    /\ ~data.music_playing
    /\ fatal = ""

\* C13: stop() discards every pending command, then enqueues MusicStop only
\* if music_playing was true at the call, then enqueues SoundStopAll: the
\* queue after stop() is exactly [MusicStop, SoundStopAll] when music was
\* playing and exactly [SoundStopAll] otherwise, whatever was queued before.
C13_StopQueue ==
    [][stop =>
          data'.commands =
             IF data.music_playing
             THEN <<command_music_stop, command_sound_stop_all>>
             ELSE <<command_sound_stop_all>>]_vars

\* C13 witness: stop() was called with no music playing and DMG music paused
C13_Witness ==
    /\ data.commands = <<command_sound_stop_all>>
    /\ ~data.music_playing
    /\ data.dmg_music_paused
    /\ fatal = ""

\* C14 as claimed: after stop(), from any reachable state, nothing plays:
\* music_playing and music_paused are false, the DMG music data handle is
\* null and dmg_music_paused is false.
C14_StopResetsShadow ==
    [][stop =>
          /\ ~data'.music_playing
          /\ ~data'.music_paused
          /\ data'.dmg_music_data = 0
          /\ ~data'.dmg_music_paused]_vars

\* C15: a public operation whose precondition is violated fails at the call,
\* before any mutation: a failing call leaves the queue and every shadow field
\* as they were and executes no command against the driver; an enqueuing
\* operation called with a full queue, pause_music() called with no music or
\* paused music and set_dmg_music_volume() called with no DMG music fail; and
\* an enqueuing operation that succeeds has appended exactly one command to
\* the queue (no command is dropped by a call that appears to succeed).
C15_FailBeforeMutation ==
    [][/\ fatal' # "" => (data' = data /\ hw_executed' = 0)
       /\ (full(data.commands) /\ EnqueueOp) => fatal' # ""
       /\ (pause_music /\ (~data.music_playing \/ data.music_paused)) => fatal' # ""
       /\ (data.dmg_music_data = 0 /\
           \E left_volume \in DmgVolumes, right_volume \in DmgVolumes :
              set_dmg_music_volume(left_volume, right_volume)) => fatal' # ""
       /\ (EnqueueOp /\ fatal' = "") =>
             /\ Len(data'.commands) = Len(data.commands) + 1
             /\ SubSeq(data'.commands, 1, Len(data.commands)) = data.commands]_vars

\* C15 witness: pause_music() failed on paused music with a full queue
C15_Witness ==
    /\ fatal = MusicPausedMsg
    /\ full(data.commands)
    /\ data.music_paused

\* a step of update() under SpecMusic, whatever the driver answers
MusicUpdateOp ==
    \E hw_playing \in BOOLEAN, hw_position \in MusicHwPositions :
       update(hw_playing, hw_position, -1, 0)

\* C16: while music is playing, music_volume() right after a successful
\* set_music_volume(v) returns exactly v, not the hardware-rescaled volume
\* that the queued command carries; it still returns v when update() runs in
\* between, whatever the driver answers, because update() leaves music_volume
\* as it is.
C16_MusicVolumeRoundTrip ==
    [][/\ \A volume \in MusicVolumes :
             (set_music_volume(volume) /\ fatal' = "") =>
                /\ music_volume_fn(data') = Ok(data', volume)
                /\ LastCommand'._volume = _hw_music_volume(volume)
                /\ \A hw_playing \in BOOLEAN, hw_position \in MusicHwPositions :
                      music_volume_fn(update_fn(data', hw_playing, hw_position, -1, 0).data).value
                         = volume
       /\ MusicUpdateOp => data'.music_volume = data.music_volume]_vars

\* C16 witness: set_music_volume(0.5) and then update() ran on playing music
\* that was started at volume 2
C16_Witness ==
    /\ data.music_playing
    /\ data.music_volume = FixedOfInt(1) \div 2
    /\ hw_executed = 2
    /\ data.commands = <<>>
    /\ data.music_position = 2
    /\ fatal = ""

\* every raw fixed panning from -1 to 1
PanningRange == (-Pow2(FixedPrecision))..Pow2(FixedPrecision)

\* C17: the sound panning conversion maps every panning in [-1, 1] to a
\* hardware value in [0, 255]: panning -1 maps to 0, panning 1 maps to the
\* clamp maximum 255, and the result is (panning + 1) rescaled to 7 fraction
\* bits, capped at 255; the extended play_sound enqueues a command that
\* carries this value in its 8 bit panning field.
C17_PanningConversion ==
    /\ \A panning \in PanningRange :
          /\ _hw_sound_panning(panning) \in 0..255
          /\ _hw_sound_panning(panning) =
                Min((panning + Pow2(FixedPrecision)) \div Pow2(FixedPrecision - 7), 255)
    /\ _hw_sound_panning(-Pow2(FixedPrecision)) = 0
    /\ _hw_sound_panning(Pow2(FixedPrecision)) = 255
    /\ [][\A priority \in Priorities, item \in SoundItems, volume \in SoundVolumes,
             speed \in SoundSpeeds, panning \in PanningArgs :
             (play_sound_ex(priority, item, volume, speed, panning) /\ fatal' = "") =>
                /\ LastCommand'._type = "SOUND_PLAY_EX"
                /\ LastCommand'._panning =
                      Min((panning + Pow2(FixedPrecision)) \div Pow2(FixedPrecision - 7), 255)]_vars

\* C17 witness: sounds were played with pannings -1, 0 and 1
C17_Witness ==
    /\ Len(data.commands) = 3
    /\ data.commands[1]._panning = 0
    /\ data.commands[2]._panning = 128
    /\ data.commands[3]._panning = 255
    /\ fatal = ""

\* the volume rescaled to 8 fraction bits, clamped to at most 255
ClampedSoundVolume(volume) ==
    Min(TruncDiv(volume, Pow2(FixedPrecision - 8)), 255)

\* a step of the extended play_sound called with a volume of SoundVolumeArgs
\* and succeeding
PlaySoundVolume(volume) ==
    /\ \E priority \in Priorities, item \in SoundItems, speed \in SoundSpeeds,
          panning \in SoundPannings :
          play_sound_ex(priority, item, volume, speed, panning)
    /\ fatal' = ""

\* C18 as claimed: for every sound volume passed to the extended play_sound,
\* the command carries the volume rescaled to 8 fraction bits clamped to at
\* most 255, a value the hardware field holds.
C18_Original ==
    [][\A volume \in SoundVolumeArgs :
          PlaySoundVolume(volume) =>
             /\ LastCommand'._volume = ClampedSoundVolume(volume)
             /\ LastCommand'._volume \in 0..255]_vars

\* C18 amended: for every sound volume that is not negative the command
\* carries the volume rescaled to 8 fraction bits clamped to at most 255, so a
\* volume whose rescale exceeds 255 never overflows the field; the conversion
\* has no lower clamp, and a negative rescale wraps around in the unsigned 16
\* bit field of the command.
C18_SoundVolumeClamped ==
    [][\A volume \in SoundVolumeArgs :
          PlaySoundVolume(volume) =>
             /\ volume >= 0 =>
                   /\ LastCommand'._volume = ClampedSoundVolume(volume)
                   /\ LastCommand'._volume \in 0..255
             /\ volume < 0 =>
                   LastCommand'._volume = ClampedSoundVolume(volume) % Pow2(16)]_vars

\* C18 witness: sounds were played with volumes 0.5, 1 and 2
C18_Witness ==
    /\ Len(data.commands) = 3
    /\ data.commands[1]._volume = 128
    /\ data.commands[2]._volume = 255
    /\ data.commands[3]._volume = 255
    /\ data.commands[3]._panning = 255
    /\ fatal = ""

\* C19: update() overwrites music_position with the position the driver
\* reports if and only if shadow music_playing is true and the driver reports
\* active playback; otherwise music_position keeps the value it had before.
C19_MusicPositionResync ==
    [][\A hw_playing \in BOOLEAN, hw_position \in MusicHwPositions :
          update(hw_playing, hw_position, -1, 0) =>
             data'.music_position =
                IF data.music_playing /\ hw_playing
                THEN hw_position
                ELSE data.music_position]_vars

\* C19 witness: update() executed a set_music_position(1) and, the driver
\* reporting no playback, kept position 1, which the driver never reports
C19_Witness ==
    /\ data.music_playing
    /\ data.music_position = 1
    /\ hw_executed = 1
    /\ data.commands = <<>>
    /\ fatal = ""

\* C20: update() overwrites dmg_music_position with the pattern and row the
\* driver reports only when DMG music is active and the reported pattern is
\* not negative; a negative pattern, or inactive DMG music, leaves
\* dmg_music_position as it was.
C20_DmgPositionResync ==
    [][\A hw_playing \in BOOLEAN, hw_position \in Positions,
          pattern \in DmgHwPatterns, row \in DmgHwRows :
          update(hw_playing, hw_position, pattern, row) =>
             data'.dmg_music_position =
                IF data.dmg_music_data # 0 /\ pattern >= 0
                THEN [pattern |-> pattern, row |-> row]
                ELSE data.dmg_music_position]_vars

\* C20 witness: update() executed a set_dmg_music_position(1, 1) and, the
\* driver reporting a negative pattern, kept it
C20_Witness ==
    /\ data.dmg_music_data # 0
    /\ data.dmg_music_position = [pattern |-> 1, row |-> 1]
    /\ hw_executed = 1
    /\ data.commands = <<>>
    /\ fatal = ""

\* C21: update() changes only the command queue and the two position
\* fields: music_item_id, music_volume, music_playing, music_paused, the DMG
\* data handle, both DMG volumes and dmg_music_paused are as before, whatever
\* the driver reports, a driver that reports no playback included.
C21_UpdateFrame ==
    [][UpdateOp =>
          /\ data' = [data EXCEPT !.commands = <<>>,
                                  !.music_position = data'.music_position,
                                  !.dmg_music_position = data'.dmg_music_position]
          /\ fatal' = fatal]_vars

\* C21 witness: update() ran, with a full queue, on paused music and paused
\* DMG music
C21_Witness ==
    /\ data.music_playing /\ data.music_paused
    /\ data.dmg_music_data # 0 /\ data.dmg_music_paused
    /\ hw_executed = BN_CFG_AUDIO_MAX_COMMANDS
    /\ data.commands = <<>>
    /\ fatal = ""

\* C22: commit() and every query operation (music_playing,
\* playing_music_item, music_paused, music_position, music_volume,
\* dmg_music_playing, dmg_music_paused, dmg_music_position,
\* dmg_music_left_volume, dmg_music_right_volume) leave the whole shadow state
\* and the command queue as they were, and execute no command.
C22_QueriesAndCommitFrame ==
    /\ [](/\ commit_fn(data).data = data
          /\ music_playing_fn(data).data = data
          /\ playing_music_item_fn(data).data = data
          /\ music_paused_fn(data).data = data
          /\ music_position_fn(data).data = data
          /\ music_volume_fn(data).data = data
          /\ dmg_music_playing_fn(data).data = data
          /\ dmg_music_paused_fn(data).data = data
          /\ dmg_music_position_fn(data).data = data
          /\ dmg_music_left_volume_fn(data).data = data
          /\ dmg_music_right_volume_fn(data).data = data)
    /\ [][(commit \/ MusicQueries \/ DmgMusicQueries) =>
             (data' = data /\ hw_executed' = 0)]_vars

\* C22 witness: a DMG music query failed with commands pending and music
\* paused, and left them as they were
C22_Witness ==
    /\ fatal = NoDmgMusicMsg
    /\ data.dmg_music_data = 0
    /\ Len(data.commands) = 2
    /\ data.music_paused

\* the outcome of a sound operation that enqueues a command of type
\* command_type: with a full queue it fails and changes nothing, otherwise it
\* succeeds, the queue is the old queue followed by one command of that type
\* and every shadow field is as before
SoundOpOutcome(command_type) ==
    IF full(data.commands)
    THEN fatal' = NoCommandsMsg /\ data' = data
    ELSE /\ fatal' = ""
         /\ Len(data'.commands) = Len(data.commands) + 1
         /\ LastCommand'._type = command_type
         /\ data' = [data EXCEPT !.commands = Append(data.commands, LastCommand')]

\* C23: both forms of play_sound and stop_all_sounds each append exactly one
\* command (SoundPlay, SoundPlayExtended, SoundStopAll) to the queue and change
\* no shadow state field; their only precondition is a non-full queue.
C23_SoundOpsFrame ==
    [][/\ (\E priority \in Priorities, item \in SoundItems :
              play_sound(priority, item)) => SoundOpOutcome("SOUND_PLAY")
       /\ (\E priority \in Priorities, item \in SoundItems, volume \in SoundVolumes,
              speed \in SoundSpeeds, panning \in SoundPannings :
              play_sound_ex(priority, item, volume, speed, panning))
             => SoundOpOutcome("SOUND_PLAY_EX")
       /\ stop_all_sounds => SoundOpOutcome("SOUND_STOP_ALL")]_vars

\* C23 witness: the three sound operations were called with nothing playing
C23_Witness ==
    /\ Len(data.commands) = 3
    /\ data.commands[1]._type = "SOUND_PLAY"
    /\ data.commands[2]._type = "SOUND_PLAY_EX"
    /\ data.commands[3]._type = "SOUND_STOP_ALL"
    /\ ~data.music_playing
    /\ data.dmg_music_data = 0
    /\ fatal = ""

\* C24: from any shadow state with a non-full queue (DMG music inactive,
\* active or paused), play_dmg_music(item, speed, loop) succeeds, and
\* afterwards dmg_music_position is the zero position, both DMG channel
\* volumes are 1, the data handle is the item's (DMG music is active) and
\* dmg_music_paused is false; the music fields are as before.
C24_PlayDmgMusicShadow ==
    [][\A item \in DmgItemArgs, speed \in DmgSpeeds, loop \in Loops :
          (~full(data.commands) /\ play_dmg_music(item, speed, loop)) =>
             /\ fatal' = ""
             /\ dmg_music_position_fn(data') = Ok(data', dmg_music_position_zero)
             /\ dmg_music_left_volume_fn(data') = Ok(data', FixedOfInt(1))
             /\ dmg_music_right_volume_fn(data') = Ok(data', FixedOfInt(1))
             /\ data'.dmg_music_data = item
             /\ dmg_music_playing_fn(data') = Ok(data', TRUE)
             /\ dmg_music_paused_fn(data') = Ok(data', FALSE)
             /\ data'.music_item_id = data.music_item_id
             /\ data'.music_position = data.music_position
             /\ data'.music_volume = data.music_volume
             /\ data'.music_playing = data.music_playing
             /\ data'.music_paused = data.music_paused]_vars

\* C24 witness: play_dmg_music() of item 2 was called right after
\* pause_dmg_music(), with music paused
C24_Witness ==
    /\ Len(data.commands) >= 2
    /\ LastCommand._type = "DMG_MUSIC_PLAY"
    /\ data.commands[Len(data.commands) - 1]._type = "DMG_MUSIC_PAUSE"
    /\ data.dmg_music_data = 2
    /\ ~data.dmg_music_paused
    /\ data.music_paused
    /\ fatal = ""

\* a successful step that appended one command of type command_type to the
\* tail of the queue and left the commands already queued as they were
Appended(command_type) ==
    /\ Len(data'.commands) = Len(data.commands) + 1
    /\ SubSeq(data'.commands, 1, Len(data.commands)) = data.commands
    /\ LastCommand'._type = command_type

\* C25: every successful mutating operation other than stop() (play, stop,
\* pause, resume, set position and set volume for music and for DMG music,
\* set_dmg_music_left_volume and set_dmg_music_right_volume included,
\* play_sound and stop_all_sounds) appends exactly one command, of its own
\* type, to the tail of the queue and leaves the commands already queued as
\* they were.
C25_OneCommandAtTail ==
    [][fatal' = "" =>
          /\ (\E item \in Items, volume \in Volumes, loop \in Loops :
                 play_music(item, volume, loop)) => Appended("MUSIC_PLAY")
          /\ stop_music => Appended("MUSIC_STOP")
          /\ pause_music => Appended("MUSIC_PAUSE")
          /\ resume_music => Appended("MUSIC_RESUME")
          /\ (\E position \in Positions : set_music_position(position))
                => Appended("MUSIC_SET_POSITION")
          /\ (\E volume \in Volumes : set_music_volume(volume))
                => Appended("MUSIC_SET_VOLUME")
          /\ (\E item \in DmgItems, speed \in DmgSpeeds, loop \in Loops :
                 play_dmg_music(item, speed, loop)) => Appended("DMG_MUSIC_PLAY")
          /\ stop_dmg_music => Appended("DMG_MUSIC_STOP")
          /\ pause_dmg_music => Appended("DMG_MUSIC_PAUSE")
          /\ resume_dmg_music => Appended("DMG_MUSIC_RESUME")
          /\ (\E position \in DmgPositions : set_dmg_music_position(position))
                => Appended("DMG_MUSIC_SET_POSITION")
          /\ (\E volume \in DmgVolumes :
                 \/ set_dmg_music_left_volume(volume)
                 \/ set_dmg_music_right_volume(volume)
                 \/ \E right_volume \in DmgVolumes :
                       set_dmg_music_volume(volume, right_volume))
                => Appended("DMG_MUSIC_SET_VOLUME")
          /\ (\E priority \in Priorities, item \in SoundItems :
                 play_sound(priority, item)) => Appended("SOUND_PLAY")
          /\ (\E priority \in Priorities, item \in SoundItems, volume \in SoundVolumes,
                 speed \in SoundSpeeds, panning \in SoundPannings :
                 play_sound_ex(priority, item, volume, speed, panning))
                => Appended("SOUND_PLAY_EX")
          /\ stop_all_sounds => Appended("SOUND_STOP_ALL")]_vars

\* C25 witness: play_music(), play_dmg_music() and a DMG volume setter were
\* called in this order
C25_Witness ==
    /\ Len(data.commands) = 3
    /\ data.commands[1]._type = "MUSIC_PLAY"
    /\ data.commands[2]._type = "DMG_MUSIC_PLAY"
    /\ data.commands[3]._type = "DMG_MUSIC_SET_VOLUME"
    /\ fatal = ""

\* every raw fixed volume from 0 to 1
UnitVolumeRange == 0..Pow2(FixedPrecision)

\* the volume rescaled to bits fraction bits, reduced modulo 2^16
CarriedVolume(volume, bits) ==
    TruncDiv(volume, Pow2(FixedPrecision - bits)) % Pow2(16)

\* a successful step of a DMG volume setter called with the volumes
\* left_volume and right_volume
SetDmgVolumeOk(left_volume, right_volume) ==
    /\ \/ set_dmg_music_volume(left_volume, right_volume)
       \/ /\ set_dmg_music_left_volume(left_volume)
          /\ right_volume = data.dmg_music_right_volume
       \/ /\ set_dmg_music_right_volume(right_volume)
          /\ left_volume = data.dmg_music_left_volume
    /\ fatal' = ""

\* C26: music and DMG music volumes are not clamped before enqueue: the
\* MusicPlay / MusicSetVolume command carries the volume rescaled to 10
\* fraction bits reduced modulo 2^16 (the command's field has 16 bits), so
\* every volume in [0, 1] is carried exactly (0..1024) while a volume of 64
\* wraps around to 0; the DmgMusicSetVolume command carries both channel
\* volumes rescaled to 3 fraction bits in the same way (0..8 for [0, 1]).
C26_MusicVolumesNotClamped ==
    /\ \A volume \in UnitVolumeRange :
          /\ command_music_set_volume(_hw_music_volume(volume))._volume
                = volume \div Pow2(FixedPrecision - 10)
          /\ command_music_set_volume(_hw_music_volume(volume))._volume \in 0..1024
          /\ command_dmg_music_set_volume(_hw_dmg_music_volume(volume),
                                          _hw_dmg_music_volume(volume))._volume
                = volume \div Pow2(FixedPrecision - 3)
          /\ command_dmg_music_set_volume(_hw_dmg_music_volume(volume),
                                          _hw_dmg_music_volume(volume))._speed \in 0..8
    /\ _hw_music_volume(FixedOfInt(64)) = Pow2(16)
    /\ [][/\ \A volume \in MusicScaleArgs :
                (/\ \/ \E item \in Items, loop \in Loops : play_music(item, volume, loop)
                    \/ set_music_volume(volume)
                 /\ fatal' = "") =>
                   /\ LastCommand'._volume = CarriedVolume(volume, 10)
                   /\ volume < FixedOfInt(64) =>
                         LastCommand'._volume = _hw_music_volume(volume)
                   /\ volume >= FixedOfInt(64) =>
                         LastCommand'._volume < _hw_music_volume(volume)
          /\ \A left_volume \in DmgScaleArgs, right_volume \in DmgScaleArgs :
                SetDmgVolumeOk(left_volume, right_volume) =>
                   /\ LastCommand'._volume = CarriedVolume(left_volume, 3)
                   /\ LastCommand'._speed = CarriedVolume(right_volume, 3)]_vars

\* C26 witness: set_music_volume() was called with the largest volume below
\* 64 and then with 64, and a DMG volume setter with volumes 1 and 8192
C26_Witness ==
    /\ Len(data.commands) = 3
    /\ data.commands[1]._type = "MUSIC_SET_VOLUME"
    /\ data.commands[1]._volume = Pow2(16) - 1
    /\ data.commands[2]._type = "MUSIC_SET_VOLUME"
    /\ data.commands[2]._volume = 0
    /\ data.music_volume = FixedOfInt(64)
    /\ data.commands[3]._type = "DMG_MUSIC_SET_VOLUME"
    /\ data.commands[3]._volume = 8
    /\ data.commands[3]._speed = 0
    /\ data.dmg_music_right_volume = FixedOfInt(8192)
    /\ fatal = ""

\* C27: stop() never ends in a fatal assertion: from every reachable state
\* in which the program still runs (a full queue, music not playing and music
\* paused included) it completes; the capacity exceeds the two commands it
\* enqueues at most, and it enqueues at most two.
C27_StopNeverFatal ==
    /\ BN_CFG_AUDIO_MAX_COMMANDS > 2
    /\ [](/\ stop_fn(data).fatal = ""
          /\ Len(stop_fn(data).data.commands) <= 2)
    /\ [][stop => fatal' = ""]_vars

\* C27 witness: stop() completed on paused music, with DMG music paused too
C27_Witness ==
    /\ Len(data.commands) = 2
    /\ data.commands[1]._type = "MUSIC_STOP"
    /\ data.commands[2]._type = "SOUND_STOP_ALL"
    /\ ~data.music_playing
    /\ data.music_position = 1
    /\ data.dmg_music_paused
    /\ fatal = ""

\* the driver's playing and paused flags equal the shadow flags
ShadowAgrees(d, h) ==
    /\ h.music_playing = d.music_playing
    /\ h.music_paused = d.music_paused
    /\ h.dmg_music_playing = (d.dmg_music_data # 0)
    /\ h.dmg_music_paused = d.dmg_music_paused

\* C28: with a driver whose music and DMG music playing and paused state
\* changes only in response to executed commands, over every sequence of
\* public operations and update() calls that contains no stop(), right after
\* each update() the driver's music playing and paused flags equal shadow
\* music_playing and music_paused, and its DMG playing and paused flags equal
\* the shadow DMG flags.
C28_ShadowAgreesAfterUpdate ==
    /\ ShadowAgrees(data, hw_audio)
    /\ [][UpdateOp => ShadowAgrees(data', hw_audio')]_vars

\* C28 witness: update() executed a full queue and left music paused and DMG
\* music playing, in the driver and in the shadow state
C28_Witness ==
    /\ hw_audio.observed
    /\ hw_executed = BN_CFG_AUDIO_MAX_COMMANDS
    /\ data.commands = <<>>
    /\ data.music_paused /\ hw_audio.music_paused
    /\ data.dmg_music_data # 0 /\ hw_audio.dmg_music_playing
    /\ fatal = ""

\* C29 as claimed: once stop() is followed by update() (the update finds the
\* queue ending with the SoundStopAll command of stop()), the driver no longer
\* plays music, in agreement with shadow music_playing being false, whatever
\* operations and update() calls came before, commands that were still pending
\* at the stop() included.
C29_StopThenUpdateSilencesMusic ==
    [][(/\ UpdateOp
        /\ data.commands # <<>>
        /\ LastCommand._type = "SOUND_STOP_ALL") =>
          /\ ~data'.music_playing
          /\ ~hw_audio'.music_playing]_vars

\* C30: once the life of an enemy has reached 0 (through _add_damage()),
\* repeated update() calls make done() true after a bounded number of
\* updates: at most the counter _add_damage() set at the death (1, 30 or 48),
\* every update() bringing it one closer, and earlier if the sprite leaves the
\* view (the update() after the one that finds it outside is the last); the
\* life is never negative and never rises.
C30_DeadEnemyDone ==
    /\ [](enemy._life >= 0)
    /\ [][enemy'._life <= enemy._life]_vars
    /\ [](enemy._life = 0 =>
             /\ enemy.death_counter \in {1, 30, 48}
             /\ enemy.dead_updates <= enemy.death_counter
             /\ ~enemy_done(enemy) =>
                   /\ enemy._move_event_counter >= 1
                   /\ enemy.dead_updates + enemy._move_event_counter
                         <= enemy.death_counter
                   /\ (enemy.dead_updates >= 1 /\ _is_outside(enemy)) =>
                         enemy._move_event_counter = 1)
    /\ (enemy._life = 0) ~> enemy_done(enemy)

\* C30 witness: an enemy that died with 30 frames of death animation was
\* done earlier, its sprite having left the view
C30_Witness ==
    /\ enemy._life = 0
    /\ enemy_done(enemy)
    /\ enemy.death_counter = 30
    /\ enemy.dead_updates > 1
    /\ enemy.dead_updates < 30
    /\ _is_outside(enemy)
    /\ Len(data.commands) = 1

====
